---------------------------- MODULE Spec2Model ----------------------------
(***************************************************************************)
(* The encrypted local vault of satto-receipt: key derivation, the vault   *)
(* codec, the vault store (IndexedDB + localStorage), the session handlers *)
(* of App.tsx and the CSV interchange layer.                               *)
(*                                                                         *)
(* Text is a sequence of one-character strings, so that the CSV code can   *)
(* be modelled character by character.  Cryptographic primitives are       *)
(* symbolic: a derived key is the pair it was derived from, a ciphertext   *)
(* is a box sealed with a key and a nonce.  Every async handler is cut at  *)
(* its awaits: one action per continuation, with the values its closure    *)
(* captured kept in the handler's task record.                             *)
(***************************************************************************)
EXTENDS Integers, Sequences, FiniteSets, TLC

VARIABLES
    session,        \* App.tsx:178  useState<Session | null>
    unlocking,      \* App.tsx:179  useState(false)
    unlockError,    \* App.tsx:180  useState<string | null>
    vaultStore,     \* db.ts:5,12   the IndexedDB object store 'vault' (keyPath 'id')
    localStorage,   \* db.ts:47,51  window.localStorage, as a map from keys to text
    tasks,          \* the handler invocations in flight, each at one of its awaits
    nextId,         \* the number of crypto.randomUUID() values drawn so far
    hist,           \* history of the operation that ran last, kept by SeqSpec
    codecIn,        \* the vault handed to the codec round trip
    codecOut,       \* what the codec round trip returned
    csvIn,          \* what is handed to the CSV functions
    csvOut,         \* what the CSV functions returned
    nonces          \* history of the encryptVault calls, kept by NonceSpec

vars == << session, unlocking, unlockError, vaultStore, localStorage, tasks,
           nextId, hist, codecIn, codecOut, csvIn, csvOut, nonces >>

---------------------------------------------------------------------------
(* Bounds of the model *)

MaxTasks == 2
MaxReceipts == 2
MaxIds == 2
MaxOverlapIds == 1
NumIvs == 2
MaxDraws == 3
MaxFields == 2
MaxLines == 2

---------------------------------------------------------------------------
(* JavaScript values *)

NULL == <<>>
\* Text is a sequence of one-character strings; undefined, and a property the
\* object does not have at all, are sequences that no text is.
UNDEFINED == <<"undefined">>
ABSENT == <<"absent">>

Range(s) == { s[i] : i \in DOMAIN s }

RECURSIVE SeqMap(_, _)
SeqMap(Op(_), s) ==
    IF s = <<>> THEN <<>> ELSE <<Op(Head(s))>> \o SeqMap(Op, Tail(s))

---------------------------------------------------------------------------
(* lib/types.ts and the constants of App.tsx *)

defaultCategories ==
    << [id |-> "supermarket",   color |-> "#3de0a2"],
       [id |-> "convenience",   color |-> "#f59e0b"],
       [id |-> "drugstore",     color |-> "#a78bfa"],
       [id |-> "restaurant",    color |-> "#ef4444"],
       [id |-> "clothing",      color |-> "#ec4899"],
       [id |-> "electronics",   color |-> "#38bdf8"],
       [id |-> "medical",       color |-> "#14b8a6"],
       [id |-> "entertainment", color |-> "#8b5cf6"],
       [id |-> "other",         color |-> "#94a3b8"] >>

\* A fresh vault without the default categories.
createVault_noCategories == [receipts |-> <<>>, categories |-> <<>>]

createVault == [receipts |-> <<>>, categories |-> defaultCategories]

\* new Date().toISOString(): the clock does not advance in the model.  A
\* receipt's createdAt and updatedAt are this one text and are left out of
\* the receipt records.
NowIso == << "2","0","2","4","-","0","6","-","0","1","T","0","0",":","0","0","Z" >>
\* now.slice(0, 10)
Today == SubSeq(NowIso, 1, 10)

---------------------------------------------------------------------------
(* lib/crypto.ts: salt, key derivation and the vault codec *)

SALT_KEY == "receipt-vault-salt"
SaltLen == 16
IvLen == 12

B64 == << "A","B","C","D","E","F","G","H","I","J","K","L","M","N","O","P",
          "Q","R","S","T","U","V","W","X","Y","Z","a","b","c","d","e","f",
          "g","h","i","j","k","l","m","n","o","p","q","r","s","t","u","v",
          "w","x","y","z","0","1","2","3","4","5","6","7","8","9","+","/" >>

B64Char(n) == B64[n + 1]
B64Index(c) == (CHOOSE i \in DOMAIN B64 : B64[i] = c) - 1

RECURSIVE bytesToBase64(_)
bytesToBase64(bytes) ==
    IF Len(bytes) = 0 THEN <<>>
    ELSE IF Len(bytes) = 1 THEN
        << B64Char(bytes[1] \div 4), B64Char((bytes[1] % 4) * 16), "=", "=" >>
    ELSE IF Len(bytes) = 2 THEN
        << B64Char(bytes[1] \div 4),
           B64Char((bytes[1] % 4) * 16 + bytes[2] \div 16),
           B64Char((bytes[2] % 16) * 4), "=" >>
    ELSE
        << B64Char(bytes[1] \div 4),
           B64Char((bytes[1] % 4) * 16 + bytes[2] \div 16),
           B64Char((bytes[2] % 16) * 4 + bytes[3] \div 64),
           B64Char(bytes[3] % 64) >>
        \o bytesToBase64(SubSeq(bytes, 4, Len(bytes)))

RECURSIVE base64ToBytes(_)
base64ToBytes(value) ==
    IF Len(value) < 4 THEN <<>>
    ELSE
        LET a == B64Index(value[1])
            b == B64Index(value[2])
            rest == base64ToBytes(SubSeq(value, 5, Len(value)))
        IN  IF value[3] = "=" THEN << a * 4 + b \div 16 >>
            ELSE LET c == B64Index(value[3]) IN
                IF value[4] = "=" THEN
                    << a * 4 + b \div 16, (b % 16) * 16 + c \div 4 >>
                ELSE
                    << a * 4 + b \div 16, (b % 16) * 16 + c \div 4,
                       (c % 4) * 64 + B64Index(value[4]) >> \o rest

\* crypto.getRandomValues(new Uint8Array(16)): the values the generator may draw.
SaltChoices ==
    { [i \in 1..SaltLen |-> (i * 37 + 11) % 256],
      [i \in 1..SaltLen |-> IF i = 1 THEN 0 ELSE 256 - i] }

\* crypto.getRandomValues(iv): a 12-byte nonce, named by a number.
IvChoices == 1..NumIvs

getItem(key) == IF key \in DOMAIN localStorage THEN localStorage[key] ELSE NULL

\* The salt getOrCreateSalt returns when the generator draws `drawn`.
getOrCreateSalt(drawn) ==
    LET stored == getItem(SALT_KEY)
    IN  IF stored # NULL THEN base64ToBytes(stored) ELSE drawn

\* A getOrCreateSalt that stores a fresh salt on every call.
getOrCreateSalt_storage_fresh(drawn) ==
    [k \in DOMAIN localStorage \cup {SALT_KEY} |->
        IF k = SALT_KEY THEN bytesToBase64(drawn) ELSE localStorage[k]]

\* localStorage after getOrCreateSalt ran with the generator drawing `drawn`.
getOrCreateSalt_storage(drawn) ==
    LET stored == getItem(SALT_KEY)
    IN  IF stored # NULL THEN localStorage
        ELSE [k \in DOMAIN localStorage \cup {SALT_KEY} |->
                IF k = SALT_KEY THEN bytesToBase64(drawn) ELSE localStorage[k]]

\* PBKDF2 is deterministic and taken to be collision free.
deriveKey(passphrase, salt) ==
    [alg |-> "AES-GCM", passphrase |-> passphrase, salt |-> salt]

\* JSON.stringify drops every property whose value is undefined.
StringifyProp(v) == IF v = UNDEFINED THEN ABSENT ELSE v

StringifyReceipt_withoutImage(r) ==
    [r EXCEPT !.category = StringifyProp(r.category),
              !.note = StringifyProp(r.note),
              !.imageData = ABSENT]

StringifyReceipt(r) ==
    [r EXCEPT !.category = StringifyProp(r.category),
              !.note = StringifyProp(r.note),
              !.imageData = StringifyProp(r.imageData)]

JSONstringify(vault) ==
    [json |-> [receipts |-> SeqMap(StringifyReceipt, vault.receipts),
               categories |-> vault.categories]]

JSONparse(text) == text.json

\* crypto.subtle.encrypt({name: 'AES-GCM', iv}, key, data)
AesGcmEncrypt(key, iv, data) == [sealedWith |-> key, nonce |-> iv, data |-> data]

\* A decryption that does not authenticate the key.
AesGcmOpens_anyKey(key, iv, ciphertext) == ciphertext.nonce = iv

\* crypto.subtle.decrypt rejects unless key and nonce are those of the sealing.
AesGcmOpens(key, iv, ciphertext) ==
    ciphertext.sealedWith = key /\ ciphertext.nonce = iv

\* An encryptVault that seals under the nonce of the stored record.
encryptVault_storedIv(vault, key, iv) ==
    LET used == IF vaultStore = {} THEN iv ELSE (CHOOSE r \in vaultStore : TRUE).iv
    IN  [ciphertext |-> AesGcmEncrypt(key, used, JSONstringify(vault)), iv |-> used]

encryptVault(vault, key, iv) ==
    [ciphertext |-> AesGcmEncrypt(key, iv, JSONstringify(vault)), iv |-> iv]

decryptVault_ok(params) ==
    AesGcmOpens(params.key, params.iv, params.ciphertext)

decryptVault(params) == JSONparse(params.ciphertext.data)

---------------------------------------------------------------------------
(* lib/db.ts: the vault store *)

loadVault ==
    IF \E r \in vaultStore : r.id = "data"
    THEN CHOOSE r \in vaultStore : r.id = "data"
    ELSE NULL

\* A put that is lost.
saveVault_dropped(record) == vaultStore

\* An add beside the records of the store instead of a put over its key.
saveVault_added(record) == vaultStore \cup {record}

\* db.put on a store with keyPath 'id': the record replaces the one of its id.
saveVault(record) ==
    { r \in vaultStore : r.id # record.id } \cup { record }

\* A clear that deletes nothing.
clearVault_kept == vaultStore

clearVault == { r \in vaultStore : r.id # "data" }

---------------------------------------------------------------------------
(* Text primitives of JavaScript used by lib/csvImport.ts *)

QUOTE == "\""

\* String.prototype.trim strips white space, line terminators and the BOM.
IsWhiteSpace(c) == c \in { " ", "\t", "\r", "\n", "BOM" }

RECURSIVE trimStart(_)
trimStart(s) ==
    IF s # <<>> /\ IsWhiteSpace(Head(s)) THEN trimStart(Tail(s)) ELSE s

RECURSIVE trimEnd(_)
trimEnd(s) ==
    IF s # <<>> /\ IsWhiteSpace(s[Len(s)])
    THEN trimEnd(SubSeq(s, 1, Len(s) - 1)) ELSE s

trim(s) == trimEnd(trimStart(s))

\* The positions of the line feeds of a text, and the k-th of them (0 before
\* the first line, Len + 1 after the last).
LineFeeds(text) == { i \in DOMAIN text : text[i] = "\n" }

LineFeed(text, k) ==
    IF k = 0 THEN 0
    ELSE IF k > Cardinality(LineFeeds(text)) THEN Len(text) + 1
    ELSE CHOOSE i \in LineFeeds(text) :
            Cardinality({ j \in LineFeeds(text) : j < i }) = k - 1

\* text.split("\n")
splitLines(text) ==
    [ k \in 1..(Cardinality(LineFeeds(text)) + 1) |->
        SubSeq(text, LineFeed(text, k - 1) + 1, LineFeed(text, k) - 1) ]

Upper == << "A","B","C","D","E","F","G","H","I","J","K","L","M",
            "N","O","P","Q","R","S","T","U","V","W","X","Y","Z" >>
Lower == << "a","b","c","d","e","f","g","h","i","j","k","l","m",
            "n","o","p","q","r","s","t","u","v","w","x","y","z" >>

toLowerCaseChar(c) ==
    IF \E i \in DOMAIN Upper : Upper[i] = c
    THEN Lower[CHOOSE i \in DOMAIN Upper : Upper[i] = c]
    ELSE c

toLowerCase(s) == [i \in DOMAIN s |-> toLowerCaseChar(s[i])]

includes(s, sub) ==
    \E i \in 1..(Len(s) - Len(sub) + 1) : SubSeq(s, i, i + Len(sub) - 1) = sub

Digits == << "0","1","2","3","4","5","6","7","8","9" >>
IsDigit(c) == \E i \in DOMAIN Digits : Digits[i] = c
DigitValue(c) == (CHOOSE i \in DOMAIN Digits : Digits[i] = c) - 1

RECURSIVE DigitsValue(_, _)
DigitsValue(s, acc) ==
    IF s = <<>> THEN acc ELSE DigitsValue(Tail(s), acc * 10 + DigitValue(Head(s)))

AllDigits(s) == s # <<>> /\ \A i \in DOMAIN s : IsDigit(s[i])

\* Number(text) on the numerals of the model: white space is trimmed, the
\* empty text is 0, an optionally signed run of decimal digits is its value,
\* and any other text is NaN.
NumberIsNaN(text) ==
    LET t == trim(text)
    IN  ~ ( t = <<>> \/ AllDigits(t)
            \/ (Head(t) \in {"+", "-"} /\ AllDigits(Tail(t))) )

NumberValue(text) ==
    LET t == trim(text)
    IN  IF t = <<>> THEN 0
        ELSE IF Head(t) = "-" THEN 0 - DigitsValue(Tail(t), 0)
        ELSE IF Head(t) = "+" THEN DigitsValue(Tail(t), 0)
        ELSE DigitsValue(t, 0)

\* Number(text) || 0
NumberOr0(text) == IF NumberIsNaN(text) THEN 0 ELSE NumberValue(text)

RECURSIVE NatToText(_)
NatToText(n) ==
    IF n < 10 THEN << Digits[n + 1] >>
    ELSE Append(NatToText(n \div 10), Digits[(n % 10) + 1])

\* String(n) of an integer
NumberToText(n) == IF n < 0 THEN << "-" >> \o NatToText(0 - n) ELSE NatToText(n)

---------------------------------------------------------------------------
(* lib/csv.ts *)

\* value ?? ''
Nullish(value) == IF value = UNDEFINED \/ value = ABSENT THEN <<>> ELSE value

\* str.replace(/"/g, '""')
RECURSIVE doubleQuotes(_)
doubleQuotes(str) ==
    IF str = <<>> THEN <<>>
    ELSE (IF Head(str) = QUOTE THEN << QUOTE, QUOTE >> ELSE << Head(str) >>)
         \o doubleQuotes(Tail(str))

\* escapeCell of a text or of undefined; a number is handed over as the text
\* String(value) makes of it.
escapeCell(value) ==
    LET str == Nullish(value)
    IN  IF \E i \in DOMAIN str : str[i] \in { QUOTE, ",", "\n" }
        THEN << QUOTE >> \o doubleQuotes(str) \o << QUOTE >>
        ELSE str

toCsv_header ==
    << << "d", "a", "t", "e" >>,
       << "s", "t", "o", "r", "e" >>,
       << "s", "t", "o", "r", "e", "_", "c", "a", "t", "e", "g", "o", "r", "y" >>,
       << "i", "t", "e", "m", "_", "n", "a", "m", "e" >>,
       << "i", "t", "e", "m", "_", "c", "a", "t", "e", "g", "o", "r", "y" >>,
       << "q", "u", "a", "n", "t", "i", "t", "y" >>,
       << "u", "n", "i", "t", "_", "p", "r", "i", "c", "e" >>,
       << "s", "u", "b", "t", "o", "t", "a", "l" >>,
       << "r", "e", "c", "e", "i", "p", "t", "_", "t", "o", "t", "a", "l" >>,
       << "n", "o", "t", "e" >> >>

\* toCsv_rows without the row of a receipt that has no line items.
toCsv_rows_itemsOnly(receipt) ==
    [ i \in DOMAIN receipt.lineItems |->
        LET line == receipt.lineItems[i]
        IN  << receipt.visitedAt, receipt.storeName, Nullish(receipt.category),
               line.name, line.category,
               NumberToText(line.quantity), NumberToText(line.price),
               NumberToText(line.price * line.quantity),
               NumberToText(receipt.total), Nullish(receipt.note) >> ]

\* The rows toCsv makes of one receipt, each cell as the text String() gives.
toCsv_rows(receipt) ==
    IF Len(receipt.lineItems) = 0
    THEN << << receipt.visitedAt, receipt.storeName, Nullish(receipt.category),
               <<>>, <<>>, <<>>, <<>>, <<>>,
               NumberToText(receipt.total), Nullish(receipt.note) >> >>
    ELSE [ i \in DOMAIN receipt.lineItems |->
             LET line == receipt.lineItems[i]
             IN  << receipt.visitedAt, receipt.storeName, Nullish(receipt.category),
                    line.name, line.category,
                    NumberToText(line.quantity), NumberToText(line.price),
                    NumberToText(line.price * line.quantity),
                    NumberToText(receipt.total), Nullish(receipt.note) >> ]

\* receipts.flatMap(...)
RECURSIVE toCsv_flatMap(_)
toCsv_flatMap(receipts) ==
    IF receipts = <<>> THEN <<>>
    ELSE toCsv_rows(Head(receipts)) \o toCsv_flatMap(Tail(receipts))

\* Array.prototype.join
RECURSIVE join(_, _)
join(texts, separator) ==
    IF texts = <<>> THEN <<>>
    ELSE IF Len(texts) = 1 THEN texts[1]
    ELSE texts[1] \o separator \o join(Tail(texts), separator)

\* row.map(escapeCell).join(',')
toCsv_line(row) == join(SeqMap(escapeCell, row), << "," >>)

toCsv(receipts) ==
    join(SeqMap(toCsv_line, << toCsv_header >> \o toCsv_flatMap(receipts)), << "\n" >>)

\* downloadCsv: the text handed to the browser as a file, after a byte order
\* mark.
downloadCsv(csv) == << "U+FEFF" >> \o csv

---------------------------------------------------------------------------
(* lib/csvImport.ts *)

\* One turn of the loop at index i. `skip` stands for the i++ of the first
\* branch, after which the loop passes over the next character.
parseCsvLine_body(line, i, st) ==
    LET char == line[i] IN
        IF st.skip THEN [st EXCEPT !.skip = FALSE]
        ELSE IF char = QUOTE /\ i + 1 <= Len(line) /\ line[i + 1] = QUOTE
        THEN [st EXCEPT !.current = Append(@, QUOTE), !.skip = TRUE]
        ELSE IF char = QUOTE
        THEN [st EXCEPT !.inQuotes = ~@]
        ELSE IF char = "," /\ ~st.inQuotes
        THEN [st EXCEPT !.result = Append(@, st.current), !.current = <<>>]
        ELSE [st EXCEPT !.current = Append(@, char)]

\* The turns of the loop for i from lo to hi, in that order. The range is
\* halved, and the first half is finished (its state read) before the second
\* starts, so that a long line is read without nesting one turn per character.
RECURSIVE parseCsvLine_from(_, _, _, _)
parseCsvLine_from(line, lo, hi, st) ==
    IF lo > hi THEN st
    ELSE IF lo = hi THEN parseCsvLine_body(line, lo, st)
    ELSE LET mid == (lo + hi) \div 2
             first == parseCsvLine_from(line, lo, mid, st)
         IN  IF first.skip \in BOOLEAN
             THEN parseCsvLine_from(line, mid + 1, hi, first)
             ELSE first

parseCsvLine(line) ==
    LET st == parseCsvLine_from(line, 1, Len(line),
                                [ current |-> <<>>, inQuotes |-> FALSE,
                                  result |-> <<>>, skip |-> FALSE ])
    IN  Append(st.result, st.current)

\* csv.split("\n").map((l) => l.trim()).filter(Boolean)
csvLines(csv) ==
    SelectSeq(SeqMap(trim, splitLines(csv)), LAMBDA l : l # <<>>)

\* header.includes("store") ? lines.slice(1) : lines
csvDataLines(lines) ==
    IF includes(toLowerCase(lines[1]), << "s","t","o","r","e" >>)
    THEN Tail(lines) ELSE lines

\* csvTotalText reading the third column only.
csvTotalText_third(cols) ==
    IF Len(cols) >= 3 THEN cols[3] ELSE << "0" >>

\* cols[6] ?? cols[2] ?? 0, as the text Number() is applied to
csvTotalText(cols) ==
    IF Len(cols) >= 7 THEN cols[7]
    ELSE IF Len(cols) >= 3 THEN cols[3]
    ELSE << "0" >>

csvRow(line) ==
    LET cols == parseCsvLine(line)
    IN  [ date  |-> IF Len(cols) >= 1 THEN cols[1] ELSE <<>>,
          store |-> IF Len(cols) >= 2 THEN cols[2] ELSE <<>>,
          total |-> NumberOr0(csvTotalText(cols)),
          note  |-> IF Len(cols) >= 8 /\ cols[8] # <<>> THEN cols[8] ELSE UNDEFINED ]

\* `${row.date}||${row.store}||${row.total}||${row.note ?? ""}`
csvRowKey(row) ==
    row.date \o << "|", "|" >> \o row.store \o << "|", "|" >>
    \o NumberToText(row.total) \o << "|", "|" >>
    \o (IF row.note = UNDEFINED THEN <<>> ELSE row.note)

\* The Map keeps, per key, the first row set, in order of first insertion.
RECURSIVE csvDedup(_, _)
csvDedup(rows, kept) ==
    IF rows = <<>> THEN kept
    ELSE IF \E i \in DOMAIN kept : csvRowKey(kept[i]) = csvRowKey(Head(rows))
         THEN csvDedup(Tail(rows), kept)
         ELSE csvDedup(Tail(rows), Append(kept, Head(rows)))

ImportedStoreName == << "U+30A4", "U+30F3", "U+30DD", "U+30FC", "U+30C8" >>

csvReceipt(row, id) ==
    [ id        |-> id,
      storeName |-> IF row.store # <<>> THEN row.store ELSE ImportedStoreName,
      visitedAt |-> IF row.date # <<>> THEN row.date ELSE Today,
      total     |-> row.total,
      category  |-> UNDEFINED,
      note      |-> row.note,
      imageData |-> ABSENT,
      lineItems |-> <<>> ]

\* importCsvToReceipts(csv), the k-th receipt taking the id lastId + k.
importCsvToReceipts(csv, lastId) ==
    LET lines == csvLines(csv)
    IN  IF lines = <<>> THEN <<>>
        ELSE LET rows == csvDedup(SeqMap(csvRow, csvDataLines(lines)), <<>>)
             IN  [k \in DOMAIN rows |-> csvReceipt(rows[k], lastId + k)]

---------------------------------------------------------------------------
(* Inputs: what the user types, picks and confirms *)

Passphrases == { "correct-horse", "wrong-pass" }

StoreSuperMart == << "S", "u", "p", "e", "r", "M", "a", "r", "t" >>
StoreShop == << "S", "h", "o", "p" >>
Date0501 == << "2", "0", "2", "4", "-", "0", "5", "-", "0", "1" >>
Date0502 == << "2", "0", "2", "4", "-", "0", "5", "-", "0", "2" >>
CategoryFood == << "f", "o", "o", "d" >>
NoteGift == << "g", "i", "f", "t" >>
ImageJpeg == << "d", "a", "t", "a", ":", "j", "p", "e", "g" >>
\* "無題のレシート"
UntitledStoreName ==
    << "U+7121", "U+984C", "U+306E", "U+30EC", "U+30B7", "U+30FC", "U+30C8" >>

\* ReceiptDraft values (App.tsx:27-35) the form can hold when save is pressed.
DraftChoices ==
    { [ storeName |-> StoreSuperMart, visitedAt |-> Date0501, total |-> << "9", "8", "0" >>,
        note |-> <<>>, category |-> CategoryFood, imageData |-> ImageJpeg,
        lineItems |-> <<>> ],
      [ storeName |-> <<>>, visitedAt |-> <<>>, total |-> << "n", "/", "a" >>,
        note |-> NoteGift, category |-> CategoryFood, imageData |-> UNDEFINED,
        lineItems |-> << [ id |-> "item-0", name |-> << "M", "i", "l", "k" >>,
                           category |-> CategoryFood,
                           price |-> << "1", "5", "0" >>, quantity |-> <<>> ] >> ] }

\* Texts of the files handed to the CSV import.
CsvFileChoices ==
    { Date0502 \o << "," >> \o StoreShop \o << "," >> \o << "3", "0", "0" >>,
      << "d", "a", "t", "e", ",", "s", "t", "o", "r", "e" >> \o << "\n" >> }

---------------------------------------------------------------------------
(* App.tsx: the handlers.  A task is one invocation of an async handler,   *)
(* waiting at the await its pc names; key, next and stored are the locals  *)
(* and captured values its continuation uses.                              *)

TaskIds == 1..MaxTasks

Idle == [op |-> "idle", pc |-> "idle", key |-> NULL, next |-> NULL,
         enc |-> NULL, stored |-> NULL]

Mutations == { "handleSaveReceipt", "handleDeleteReceipt",
               "handleImportCsv", "handleCleanupImages" }

AllIdle == \A t \in TaskIds : tasks[t] = Idle

\* The slot a new invocation takes.
FreeSlot == CHOOSE t \in TaskIds :
                tasks[t] = Idle /\ \A u \in TaskIds : tasks[u] = Idle => t <= u

CanStart == \E t \in TaskIds : tasks[t] = Idle

Start(task) == tasks' = [tasks EXCEPT ![FreeSlot] = task]

Finish(t) == tasks' = [tasks EXCEPT ![t] = Idle]

\* A finally block that leaves the flag set.
handleUnlock_finally_skipped == TRUE

\* finally { setUnlocking(false) }
handleUnlock_finally == FALSE

UNLOCK_ERROR == [message |-> "cannot decrypt: wrong passphrase or bad data"]

\* A record that carries the key beside the ciphertext.
persistVault_record_withKey(encrypted) ==
    [ id |-> "data", version |-> 1,
      ciphertext |-> encrypted.ciphertext, iv |-> encrypted.iv,
      key |-> encrypted.ciphertext.sealedWith ]

\* The record persistVault hands to saveVault: { id, version, ...encrypted }
persistVault_record(encrypted) ==
    [ id |-> "data", version |-> 1,
      ciphertext |-> encrypted.ciphertext, iv |-> encrypted.iv ]

\* persistVault, first await: encryptVault resolves, the generator having
\* drawn `iv`.
persistVault_encryptedWith(t, iv) ==
    /\ tasks[t].pc = "encryptVault"
    /\ tasks' = [tasks EXCEPT ![t].enc = encryptVault(tasks[t].next, tasks[t].key, iv),
                              ![t].pc = "saveVault"]
    /\ UNCHANGED << session, unlocking, unlockError,
                    vaultStore, localStorage, nextId >>

persistVault_encrypted(t) ==
    \E iv \in IvChoices : persistVault_encryptedWith(t, iv)

\* persistVault, second await: saveVault resolves.
persistVault_saved(t) ==
    /\ tasks[t].pc = "saveVault"
    /\ vaultStore' = saveVault(persistVault_record(tasks[t].enc))
    /\ tasks' = [tasks EXCEPT ![t].pc = "setSession"]
    /\ UNCHANGED << session, unlocking, unlockError,
                    localStorage, nextId >>

\* A rejected await that installs the vault it was about to persist.
rejected_session_installed(t) == [key |-> tasks[t].key, vault |-> tasks[t].next]

\* The session a handler's rejected await leaves: a mutation handler has no
\* catch, handleUnlock's catch sets only the error.
rejected_session(t) == session

\* An await of persistVault rejects: the rejection leaves persistVault and
\* reaches the handler; handleUnlock catches it (catch, finally).
persistVault_rejected(t) ==
    /\ tasks[t].pc \in { "encryptVault", "saveVault" }
    /\ session' = rejected_session(t)
    /\ IF tasks[t].op = "handleUnlock"
       THEN unlockError' = UNLOCK_ERROR /\ unlocking' = handleUnlock_finally
       ELSE UNCHANGED << unlockError, unlocking >>
    /\ Finish(t)
    /\ UNCHANGED << vaultStore, localStorage, nextId >>

\* setSession({ key, vault: nextVault })
persistVault_session(t) == [key |-> tasks[t].key, vault |-> tasks[t].next]

\* persistVault's last line, then the rest of the handler that awaited it:
\* handleUnlock returns through its finally, a mutation handler resets the form.
persistVault_setSession(t) ==
    /\ tasks[t].pc = "setSession"
    /\ tasks[t].op # "handleReset"
    /\ session' = persistVault_session(t)
    /\ IF tasks[t].op = "handleUnlock"
       THEN unlocking' = handleUnlock_finally
       ELSE UNCHANGED unlocking
    /\ Finish(t)
    /\ UNCHANGED << unlockError, vaultStore, localStorage, nextId >>

\* handleUnlock up to its await of loadVault.  The panel that calls it is
\* rendered while there is no session and its button is disabled while
\* unlocking (App.tsx:654,671,1703).  deriveKey touches nothing shared, so
\* its await is part of this step.  `drawn` is what crypto.getRandomValues
\* yields if getOrCreateSalt has to create the salt.
handleUnlock(passphrase, drawn) ==
    /\ session = NULL
    /\ ~unlocking
    /\ CanStart
    /\ unlockError' = NULL
    /\ unlocking' = TRUE
    /\ localStorage' = getOrCreateSalt_storage(drawn)
    /\ Start([Idle EXCEPT !.op = "handleUnlock", !.pc = "loadVault",
                          !.key = deriveKey(passphrase, getOrCreateSalt(drawn))])
    /\ UNCHANGED << session, vaultStore, nextId >>

\* loadVault resolves: first run (no record) or a record to decrypt.
handleUnlock_loaded(t) ==
    /\ tasks[t].op = "handleUnlock"
    /\ tasks[t].pc = "loadVault"
    /\ LET stored == loadVault
       IN  IF stored = NULL
           THEN tasks' = [tasks EXCEPT ![t].next = createVault,
                                       ![t].pc = "encryptVault"]
           ELSE tasks' = [tasks EXCEPT ![t].stored = stored,
                                       ![t].pc = "decryptVault"]
    /\ UNCHANGED << session, unlocking, unlockError,
                    vaultStore, localStorage, nextId >>

\* loadVault rejects (storage unavailable): catch, finally.
handleUnlock_loadRejected(t) ==
    /\ tasks[t].op = "handleUnlock"
    /\ tasks[t].pc = "loadVault"
    /\ unlockError' = UNLOCK_ERROR
    /\ unlocking' = handleUnlock_finally
    /\ Finish(t)
    /\ UNCHANGED << session, vaultStore, localStorage, nextId >>

handleUnlock_params(t) ==
    [ ciphertext |-> tasks[t].stored.ciphertext, iv |-> tasks[t].stored.iv,
      key |-> tasks[t].key ]

\* decryptVault resolves or rejects.
handleUnlock_decrypted(t) ==
    /\ tasks[t].op = "handleUnlock"
    /\ tasks[t].pc = "decryptVault"
    /\ IF decryptVault_ok(handleUnlock_params(t))
       THEN /\ session' = [key |-> tasks[t].key,
                           vault |-> decryptVault(handleUnlock_params(t))]
            /\ UNCHANGED unlockError
       ELSE /\ unlockError' = UNLOCK_ERROR
            /\ UNCHANGED session
    /\ unlocking' = handleUnlock_finally
    /\ Finish(t)
    /\ UNCHANGED << vaultStore, localStorage, nextId >>

\* The logout button is rendered while a session is held (App.tsx:642,1133).
handleLock ==
    /\ session # NULL
    /\ session' = NULL
    /\ UNCHANGED << unlocking, unlockError, vaultStore,
                    localStorage, tasks, nextId >>

\* The reset link is rendered beside the unlock panel (App.tsx:654,673,1167).
handleReset(confirmed) ==
    /\ session = NULL
    /\ IF confirmed
       THEN CanStart /\ Start([Idle EXCEPT !.op = "handleReset", !.pc = "clearVault"])
       ELSE UNCHANGED tasks
    /\ UNCHANGED << session, unlocking, unlockError,
                    vaultStore, localStorage, nextId >>

\* clearVault resolves.
handleReset_cleared(t) ==
    /\ tasks[t].op = "handleReset"
    /\ tasks[t].pc = "clearVault"
    /\ vaultStore' = clearVault
    /\ tasks' = [tasks EXCEPT ![t].pc = "setSession"]
    /\ UNCHANGED << session, unlocking, unlockError,
                    localStorage, nextId >>

\* clearVault rejects: handleReset has no catch.
handleReset_rejected(t) ==
    /\ tasks[t].op = "handleReset"
    /\ tasks[t].pc = "clearVault"
    /\ Finish(t)
    /\ UNCHANGED << session, unlocking, unlockError,
                    vaultStore, localStorage, nextId >>

\* setSession(null) ... setUnlockError(null)
handleReset_setSession(t) ==
    /\ tasks[t].op = "handleReset"
    /\ tasks[t].pc = "setSession"
    /\ session' = NULL
    /\ unlockError' = NULL
    /\ Finish(t)
    /\ UNCHANGED << unlocking, vaultStore, localStorage, nextId >>

\* A mutation handler up to its await of persistVault(nextVault, session.key):
\* session is the value its closure captured when it was invoked.
StartMutation(op, nextVault) ==
    /\ CanStart
    /\ Len(nextVault.receipts) <= MaxReceipts
    /\ Start([Idle EXCEPT !.op = op, !.pc = "encryptVault",
                          !.key = session.key, !.next = nextVault])
    /\ UNCHANGED << session, unlocking, unlockError,
                    vaultStore, localStorage >>

\* if (!session) return
EarlyReturn ==
    UNCHANGED << session, unlocking, unlockError, vaultStore, localStorage,
                 tasks, nextId >>

handleSaveReceipt_lineItem(item) ==
    [ id |-> item.id, name |-> item.name, category |-> item.category,
      price |-> NumberOr0(item.price),
      quantity |-> IF NumberOr0(item.quantity) = 0 THEN 1
                   ELSE NumberOr0(item.quantity) ]

\* handleSaveReceipt_receipt keeping the draft's image whatever the option.
handleSaveReceipt_receipt_withImage(draft, saveImage, id) ==
    [ id        |-> id,
      storeName |-> IF draft.storeName # <<>> THEN draft.storeName
                    ELSE UntitledStoreName,
      visitedAt |-> IF draft.visitedAt # <<>> THEN draft.visitedAt ELSE Today,
      total     |-> NumberOr0(draft.total),
      category  |-> draft.category,
      note      |-> IF draft.note # <<>> THEN draft.note ELSE UNDEFINED,
      imageData |-> draft.imageData,
      lineItems |-> SeqMap(handleSaveReceipt_lineItem, draft.lineItems) ]

handleSaveReceipt_receipt(draft, saveImage, id) ==
    [ id        |-> id,
      storeName |-> IF draft.storeName # <<>> THEN draft.storeName
                    ELSE UntitledStoreName,
      visitedAt |-> IF draft.visitedAt # <<>> THEN draft.visitedAt ELSE Today,
      total     |-> NumberOr0(draft.total),
      category  |-> draft.category,
      note      |-> IF draft.note # <<>> THEN draft.note ELSE UNDEFINED,
      imageData |-> IF saveImage THEN draft.imageData ELSE UNDEFINED,
      lineItems |-> SeqMap(handleSaveReceipt_lineItem, draft.lineItems) ]

handleSaveReceipt(draft, saveImage, uuids) ==
    IF session = NULL THEN EarlyReturn
    ELSE /\ nextId < uuids
         /\ nextId' = nextId + 1
         /\ StartMutation("handleSaveReceipt",
              [session.vault EXCEPT !.receipts =
                 << handleSaveReceipt_receipt(draft, saveImage, nextId + 1) >>
                 \o session.vault.receipts])

\* The delete button is rendered per receipt of the session (App.tsx:927,1601).
\* nextVault without the first receipt, whatever the id.
handleDeleteReceipt_nextVault_first(id) ==
    [session.vault EXCEPT !.receipts = Tail(session.vault.receipts)]

\* { ...session.vault, receipts: session.vault.receipts.filter((r) => r.id !== id) }
handleDeleteReceipt_nextVault(id) ==
    [session.vault EXCEPT !.receipts =
        SelectSeq(session.vault.receipts, LAMBDA r : r.id # id)]

handleDeleteReceipt(id) ==
    IF session = NULL THEN EarlyReturn
    ELSE /\ \E i \in DOMAIN session.vault.receipts :
                session.vault.receipts[i].id = id
         /\ UNCHANGED nextId
         /\ StartMutation("handleDeleteReceipt", handleDeleteReceipt_nextVault(id))

\* What handleExport makes the browser download: NULL when it returns early.
handleExport_downloadAlways ==
    downloadCsv(toCsv(IF session = NULL THEN <<>> ELSE session.vault.receipts))

handleExport_download ==
    IF session = NULL THEN NULL
    ELSE downloadCsv(toCsv(session.vault.receipts))

\* handleExport reads the session and writes nothing.
handleExport == EarlyReturn

\* file.text() touches nothing shared, so its await is part of this step.
\* `uuids` caps the crypto.randomUUID() values a run draws.
\* nextVault with the imported receipts that are not in the vault already.
handleImportCsv_nextVault_merged(receipts) ==
    [session.vault EXCEPT !.receipts =
        SelectSeq(receipts,
                  LAMBDA r : \A i \in DOMAIN session.vault.receipts :
                      LET e == session.vault.receipts[i]
                      IN  << e.visitedAt, e.storeName, e.total >>
                          # << r.visitedAt, r.storeName, r.total >>)
        \o session.vault.receipts]

\* { ...session.vault, receipts: [...receipts, ...session.vault.receipts] }
handleImportCsv_nextVault(receipts) ==
    [session.vault EXCEPT !.receipts = receipts \o session.vault.receipts]

handleImportCsv(text, uuids) ==
    IF session = NULL THEN EarlyReturn
    ELSE LET receipts == importCsvToReceipts(text, nextId)
         IN  /\ nextId + Len(receipts) <= uuids
             /\ nextId' = nextId + Len(receipts)
             /\ StartMutation("handleImportCsv",
                              handleImportCsv_nextVault(receipts))

handleCleanupImages_receipt(r) == [r EXCEPT !.imageData = UNDEFINED]

handleCleanupImages ==
    IF session = NULL THEN EarlyReturn
    ELSE /\ UNCHANGED nextId
         /\ StartMutation("handleCleanupImages",
              [session.vault EXCEPT !.receipts =
                 SeqMap(handleCleanupImages_receipt, session.vault.receipts)])

---------------------------------------------------------------------------
(* The specifications *)

NoHist == [op |-> "none", arg |-> "", outcome |-> "none", before |-> NULL,
           atLock |-> NULL, file |-> NULL, csv |-> NULL, save |-> NULL, id |-> 0]

NoCodec == codecIn = NULL /\ codecOut = NULL

NoCsv == csvIn = NULL /\ csvOut = NULL

\* No encryptVault call yet: nothing drawn from the generator, nothing sealed.
NoNonces == [drawn |-> {}, sealed |-> <<>>]

\* A page load on a device that has never run the application.
Init ==
    /\ session = NULL
    /\ unlocking = FALSE
    /\ unlockError = NULL
    /\ vaultStore = {}
    /\ localStorage = <<>>
    /\ tasks = [t \in TaskIds |-> Idle]
    /\ nextId = 0
    /\ hist = NoHist
    /\ NoCodec
    /\ NoCsv
    /\ nonces = NoNonces

\* What the user can do, typing one of `passphrases`, holding one of
\* `drafts` in the form and picking one of `files`, on a device whose random
\* generator draws one of `salts` and at most `uuids` receipt ids.
Invoke(passphrases, salts, drafts, files, uuids) ==
    \/ \E p \in passphrases, drawn \in salts : handleUnlock(p, drawn)
    \/ handleLock
    \/ \E c \in BOOLEAN : handleReset(c)
    \/ \E d \in drafts, si \in BOOLEAN : handleSaveReceipt(d, si, uuids)
    \/ \E id \in 1..uuids : handleDeleteReceipt(id)
    \/ \E f \in files : handleImportCsv(f, uuids)
    \/ handleCleanupImages
    \/ handleExport

\* What the event loop can resume.
Resume ==
    \E t \in TaskIds :
        \/ persistVault_encrypted(t)
        \/ persistVault_saved(t)
        \/ persistVault_rejected(t)
        \/ persistVault_setSession(t)
        \/ handleUnlock_loaded(t)
        \/ handleUnlock_loadRejected(t)
        \/ handleUnlock_decrypted(t)
        \/ handleReset_cleared(t)
        \/ handleReset_rejected(t)
        \/ handleReset_setSession(t)

\* Handlers overlap: the user acts while earlier invocations are at an await.
\* The form holds the first draft, the first file is picked, the generator
\* draws the first salt and one receipt id.
OverlapDrafts == { d \in DraftChoices : d.storeName = StoreSuperMart }
OverlapFiles == { f \in CsvFileChoices : Head(f) = "2" }
OverlapSalts == { s \in SaltChoices : s[1] = 0 }

Next ==
    /\ \/ Invoke(Passphrases, OverlapSalts, OverlapDrafts, OverlapFiles,
                 MaxOverlapIds)
       \/ Resume
    /\ UNCHANGED << hist, codecIn, codecOut, csvIn, csvOut, nonces >>

Spec == Init /\ [][Next]_vars

(* One operation at a time, with a generator that never draws the same     *)
(* nonce twice.  nonces records what the generator has drawn and, call by   *)
(* call, the key and the nonce encryptVault sealed under.                   *)

NonceDraws == 1..MaxDraws

NonceEncrypted(t, iv) ==
    /\ iv \notin nonces.drawn
    /\ persistVault_encryptedWith(t, iv)
    /\ nonces' = [ drawn |-> nonces.drawn \cup {iv},
                   sealed |-> Append(nonces.sealed,
                                     [ key |-> tasks[t].key,
                                       iv |-> tasks'[t].enc.iv,
                                       nonce |-> tasks'[t].enc.ciphertext.nonce ]) ]

NonceNext ==
    /\ \/ /\ AllIdle
          /\ Invoke(Passphrases, OverlapSalts, OverlapDrafts, OverlapFiles, MaxIds)
          /\ UNCHANGED nonces
       \/ \E t \in TaskIds, iv \in NonceDraws : NonceEncrypted(t, iv)
       \/ /\ \E t \in TaskIds :
                \/ persistVault_saved(t)
                \/ persistVault_rejected(t)
                \/ persistVault_setSession(t)
                \/ handleUnlock_loaded(t)
                \/ handleUnlock_loadRejected(t)
                \/ handleUnlock_decrypted(t)
                \/ handleReset_cleared(t)
                \/ handleReset_rejected(t)
                \/ handleReset_setSession(t)
          /\ UNCHANGED nonces
    /\ UNCHANGED << hist, codecIn, codecOut, csvIn, csvOut >>

NonceSpec == Init /\ [][NonceNext]_vars

(* One operation at a time: the user waits for a handler to settle before   *)
(* the next click.  hist records the operation that ran last: its name, the *)
(* passphrase typed, how it ended ("done"; "failed", decryptVault threw;    *)
(* "rejected", an await on the store or on crypto rejected; "cancelled";    *)
(* "ignored", it returned at once for want of a session), the session,      *)
(* record and salt it started from, the session the last handleLock         *)
(* discarded (forgotten once a reset has cleared the store), the file       *)
(* handleImportCsv was given, the text handleExport had downloaded, the     *)
(* draft and the save-image option handleSaveReceipt ran with and the id    *)
(* handleDeleteReceipt was given.                                           *)

Snapshot == [session |-> session, record |-> loadVault, salt |-> getItem(SALT_KEY)]

Ran(op, arg, outcome) ==
    [op |-> op, arg |-> arg, outcome |-> outcome, before |-> Snapshot,
     atLock |-> hist.atLock, file |-> NULL, csv |-> NULL, save |-> NULL, id |-> 0]

\* How the invocation of a handler that starts with `if (!session) return`
\* stands after its first step.
Begun == IF session = NULL THEN "ignored" ELSE "pending"

Ended(outcome) == hist' = [hist EXCEPT !.outcome = outcome]

SeqInvokeWith(salts, drafts, files, uuids) ==
    \/ \E p \in Passphrases, drawn \in salts :
         handleUnlock(p, drawn) /\ hist' = Ran("handleUnlock", p, "pending")
    \/ handleLock
         /\ hist' = [Ran("handleLock", "", "done") EXCEPT !.atLock = session]
    \/ \E c \in BOOLEAN :
         handleReset(c)
         /\ hist' = Ran("handleReset", "", IF c THEN "pending" ELSE "cancelled")
    \/ \E d \in drafts, si \in BOOLEAN :
         handleSaveReceipt(d, si, uuids)
         /\ hist' = [Ran("handleSaveReceipt", "", Begun)
                       EXCEPT !.save = [draft |-> d, saveImage |-> si]]
    \/ \E id \in 1..uuids :
         handleDeleteReceipt(id)
         /\ hist' = [Ran("handleDeleteReceipt", "", Begun) EXCEPT !.id = id]
    \/ \E f \in files :
         handleImportCsv(f, uuids)
         /\ hist' = [Ran("handleImportCsv", "", Begun) EXCEPT !.file = f]
    \/ handleCleanupImages /\ hist' = Ran("handleCleanupImages", "", Begun)
    \/ handleExport
         /\ hist' = [Ran("handleExport", "", IF session = NULL THEN "ignored" ELSE "done")
                       EXCEPT !.csv = handleExport_download]

SeqInvoke == SeqInvokeWith(SaltChoices, DraftChoices, CsvFileChoices, MaxIds)

SeqResume ==
    \E t \in TaskIds :
        \/ persistVault_encrypted(t) /\ UNCHANGED hist
        \/ persistVault_saved(t) /\ UNCHANGED hist
        \/ persistVault_rejected(t) /\ Ended("rejected")
        \/ persistVault_setSession(t) /\ Ended("done")
        \/ handleUnlock_loaded(t) /\ UNCHANGED hist
        \/ handleUnlock_loadRejected(t) /\ Ended("rejected")
        \/ handleUnlock_decrypted(t)
             /\ Ended(IF session' # NULL THEN "done" ELSE "failed")
        \/ handleReset_cleared(t) /\ hist' = [hist EXCEPT !.atLock = NULL]
        \/ handleReset_rejected(t) /\ Ended("rejected")
        \/ handleReset_setSession(t) /\ Ended("done")

SeqNext ==
    /\ \/ AllIdle /\ SeqInvoke
       \/ SeqResume
    /\ UNCHANGED << codecIn, codecOut, csvIn, csvOut, nonces >>

SeqSpec == Init /\ [][SeqNext]_vars

(* One operation at a time on the device of Spec, every await settling:    *)
(* the event loop resumes a handler once the promise it awaits has         *)
(* resolved or rejected, so a handler that can resume does.                *)

LiveResume ==
    SeqResume /\ UNCHANGED << codecIn, codecOut, csvIn, csvOut, nonces >>

LiveNext ==
    \/ /\ AllIdle
       /\ SeqInvokeWith(OverlapSalts, OverlapDrafts, OverlapFiles, MaxOverlapIds)
       /\ UNCHANGED << codecIn, codecOut, csvIn, csvOut, nonces >>
    \/ LiveResume

LiveSpec == Init /\ [][LiveNext]_vars /\ WF_vars(LiveResume)

(* One operation at a time, with more texts for the total: the total field *)
(* of the form is a free text input (App.tsx:859-866, 1378-1384) and the   *)
(* file is any text file.                                                  *)

SignedDrafts ==
    OverlapDrafts
    \cup { [d EXCEPT !.total = << "-", "5" >>] : d \in OverlapDrafts }

SignedFiles ==
    OverlapFiles
    \cup { Date0502 \o << "," >> \o StoreShop \o << ",", "-", "3", "0", "0" >> }

SignedNext ==
    \/ /\ AllIdle
       /\ SeqInvokeWith(OverlapSalts, SignedDrafts, SignedFiles, MaxOverlapIds)
       /\ UNCHANGED << codecIn, codecOut, csvIn, csvOut, nonces >>
    \/ LiveResume

SignedSpec == Init /\ [][SignedNext]_vars

---------------------------------------------------------------------------
(* The codec on its own: encryptVault under one key, decryptVault under a  *)
(* key that is the same or another.                                        *)

OptionalShapes == { "absent", "undefined", "text" }

OptionalText(shape, text) ==
    CASE shape = "absent" -> ABSENT
      [] shape = "undefined" -> UNDEFINED
      [] OTHER -> text

\* One receipt per choice of shape for its three optional text fields.
CodecShapes == [ category : OptionalShapes, note : OptionalShapes, imageData : OptionalShapes ]

CodecReceipt(shape, id) ==
    [ id |-> id, storeName |-> StoreShop, visitedAt |-> Date0501, total |-> 980,
      category |-> OptionalText(shape.category, CategoryFood),
      note |-> OptionalText(shape.note, NoteGift),
      imageData |-> OptionalText(shape.imageData, ImageJpeg),
      lineItems |-> <<>> ]

\* Vaults of up to MaxReceipts receipts, the i-th with id i.
CodecVault(shapes) ==
    [ receipts |-> [i \in DOMAIN shapes |-> CodecReceipt(shapes[i], i)],
      categories |-> defaultCategories ]

CodecVaultShapes == UNION { [1..n -> CodecShapes] : n \in 0..MaxReceipts }

CodecKeys == { deriveKey(p, s) : p \in Passphrases, s \in OverlapSalts }

\* crypto.subtle.decrypt rejects with an OperationError.
AuthenticationError == [error |-> "OperationError"]

CodecInit ==
    /\ session = NULL
    /\ unlocking = FALSE
    /\ unlockError = NULL
    /\ vaultStore = {}
    /\ localStorage = <<>>
    /\ tasks = [t \in TaskIds |-> Idle]
    /\ nextId = 0
    /\ hist = NoHist
    /\ \E shapes \in CodecVaultShapes : codecIn = CodecVault(shapes)
    /\ codecOut = NULL
    /\ NoCsv
    /\ nonces = NoNonces

codecRoundTrip(encKey, decKey, iv) ==
    /\ codecOut = NULL
    /\ LET encrypted == encryptVault(codecIn, encKey, iv)
           params == [ ciphertext |-> encrypted.ciphertext, iv |-> encrypted.iv,
                       key |-> decKey ]
       IN  codecOut' = [ encKey |-> encKey, decKey |-> decKey,
                         result |-> IF decryptVault_ok(params)
                                    THEN decryptVault(params)
                                    ELSE AuthenticationError ]
    /\ UNCHANGED << session, unlocking, unlockError, vaultStore, localStorage,
                    tasks, nextId, hist, codecIn, csvIn, csvOut, nonces >>

CodecNext ==
    \E encKey \in CodecKeys, decKey \in CodecKeys, iv \in IvChoices :
        codecRoundTrip(encKey, decKey, iv)

CodecSpec == CodecInit /\ [][CodecNext]_vars

---------------------------------------------------------------------------
(* The CSV functions on their own: toCsv followed by importCsvToReceipts,  *)
(* escapeCell followed by parseCsvLine, and importCsvToReceipts on a file. *)

ItemMilk == [ id |-> "item-0", name |-> << "M", "i", "l", "k" >>,
              category |-> CategoryFood, price |-> 150, quantity |-> 2 ]
ItemTea == [ id |-> "item-1", name |-> << "T", "e", "a" >>,
             category |-> CategoryFood, price |-> 80, quantity |-> 1 ]

\* A store name that escapeCell has to quote.
StoreCommaQuote == << "A", ",", QUOTE, "B", QUOTE >>

\* A store name written on two lines.
StoreTwoLines == << "A", "\n", "B" >>

CsvLineItemChoices == { "none", "one", "two" }

CsvLineItems(choice) ==
    CASE choice = "none" -> <<>>
      [] choice = "one" -> << ItemMilk >>
      [] OTHER -> << ItemMilk, ItemTea >>

\* The receipts handed to toCsv, by store, total, note and line items.
CsvReceiptShapes ==
    [ storeName : { StoreShop, StoreCommaQuote, StoreTwoLines }, total : { 0, 980 },
      note : { "undefined", "text" }, lineItems : CsvLineItemChoices ]

CsvReceipt(shape, id) ==
    [ id |-> id, storeName |-> shape.storeName, visitedAt |-> Date0501,
      total |-> shape.total, category |-> CategoryFood,
      note |-> OptionalText(shape.note, NoteGift), imageData |-> UNDEFINED,
      lineItems |-> CsvLineItems(shape.lineItems) ]

CsvReceiptLists ==
    UNION { [1..n -> CsvReceiptShapes] : n \in 0..MaxReceipts }

\* The values of the cells of one line.
CsvFieldChoices ==
    { <<>>, << "a" >>, << "," >>, << QUOTE >>, << "a", QUOTE, "b" >>,
      << QUOTE, ",", "a" >>, << "a", ",", QUOTE >> }

CsvFieldRows == UNION { [1..n -> CsvFieldChoices] : n \in 1..MaxFields }

\* The lines of the files handed to importCsvToReceipts.
CsvLineChoices ==
    { << "2", "0", "2", "4", "-", "0", "5", "-", "0", "2", ",", "S", "h", "o", "p", ",", "3", "0", "0" >>,
      << "2", "0", "2", "4", "-", "0", "5", "-", "0", "2", ",", "S", "h", "o", "p", ",", "a", "b", "c" >>,
      << "2", "0", "2", "4", "-", "0", "5", "-", "0", "1", ",", "S", "h", "o", "p", ",", ",", ",", ",", ",", "9", "8", "0", ",", "g", "i", "f", "t" >>,
      << "2", "0", "2", "4", "-", "0", "5", "-", "0", "2", ",", "B", "o", "o", "k", "s", "t", "o", "r", "e", ",", "5", "0", "0" >>,
      << "2", "0", "2", "4", "-", "0", "5", "-", "0", "1", ",", "S", "h", "o", "p", ",", "f", "o", "o", "d", ",", "M", "i", "l", "k", ",", "f", "o", "o", "d", ",", "2", ",", "1", "5", "0", ",", "3", "0", "0", ",", "9", "8", "0", ",", "g", "i", "f", "t" >>,
      << "|", ",", ",", "1" >>,
      << ",", "|", ",", "1" >>,
      << "h", "e", "l", "l", "o", " ", "w", "o", "r", "l", "d" >>,
      << "D", "a", "t", "e", ",", "S", "t", "o", "r", "e", ",", "T", "o", "t", "a", "l" >>,
      << " ", "\r" >> }

CsvFiles == UNION { [1..n -> CsvLineChoices] : n \in 1..MaxLines }

CsvInit ==
    /\ session = NULL
    /\ unlocking = FALSE
    /\ unlockError = NULL
    /\ vaultStore = {}
    /\ localStorage = <<>>
    /\ tasks = [t \in TaskIds |-> Idle]
    /\ nextId = 0
    /\ hist = NoHist
    /\ NoCodec
    /\ nonces = NoNonces
    /\ csvOut = NULL
    /\ \/ \E shapes \in CsvReceiptLists :
             csvIn = [ op |-> "toCsv",
                       receipts |-> [i \in DOMAIN shapes |-> CsvReceipt(shapes[i], i)] ]
       \/ \E row \in CsvFieldRows : csvIn = [ op |-> "escapeCell", row |-> row ]
       \/ \E lines \in CsvFiles :
             csvIn = [ op |-> "importCsvToReceipts",
                       lines |-> lines, text |-> join(lines, << "\n" >>) ]

CsvUnchanged ==
    UNCHANGED << session, unlocking, unlockError, vaultStore, localStorage,
                 tasks, nextId, hist, codecIn, codecOut, nonces, csvIn >>

\* importCsvToReceipts(toCsv(receipts))
csvExportImport ==
    /\ csvOut = NULL
    /\ csvIn.op = "toCsv"
    /\ csvOut' = [ rows |-> << toCsv_header >> \o toCsv_flatMap(csvIn.receipts),
                   csv |-> toCsv(csvIn.receipts),
                   imported |-> importCsvToReceipts(toCsv(csvIn.receipts), 0) ]
    /\ CsvUnchanged

\* parseCsvLine(row.map(escapeCell).join(','))
csvEscapeParse ==
    /\ csvOut = NULL
    /\ csvIn.op = "escapeCell"
    /\ csvOut' = [ line |-> toCsv_line(csvIn.row),
                   cols |-> parseCsvLine(toCsv_line(csvIn.row)) ]
    /\ CsvUnchanged

\* importCsvToReceipts(text)
csvImport ==
    /\ csvOut = NULL
    /\ csvIn.op = "importCsvToReceipts"
    /\ csvOut' = [ imported |-> importCsvToReceipts(csvIn.text, 0) ]
    /\ CsvUnchanged

CsvNext == csvExportImport \/ csvEscapeParse \/ csvImport

CsvSpec == CsvInit /\ [][CsvNext]_vars

---------------------------------------------------------------------------
(* Mutations, lock, unlock and reset, one operation at a time.             *)

\* What an optional field of an encrypted vault comes back as.
RoundTripOptional(value) == IF value = UNDEFINED THEN ABSENT ELSE value

RoundTripReceipt(r) ==
    [ r EXCEPT !.category = RoundTripOptional(r.category),
               !.note = RoundTripOptional(r.note),
               !.imageData = RoundTripOptional(r.imageData) ]

StoredSalt == getItem(SALT_KEY)

\* The key handleUnlock derives from the passphrase typed and a stored salt.
TypedKey(salt) == deriveKey(hist.arg, base64ToBytes(salt))

\* What the claims compare of a receipt.
ReceiptFacts(r) ==
    [ id |-> r.id, storeName |-> r.storeName, visitedAt |-> r.visitedAt,
      total |-> r.total ]

\* The stored record opens under `key` to `vault` as JSON writes it.
RecordHolds(key, vault) ==
    /\ loadVault # NULL
    /\ loadVault.ciphertext.sealedWith = key
    /\ loadVault.ciphertext.nonce = loadVault.iv
    /\ loadVault.ciphertext.data.json.categories = vault.categories
    /\ loadVault.ciphertext.data.json.receipts = SeqMap(RoundTripReceipt, vault.receipts)

\* C1: while a mutation is in flight, and after encryptVault or saveVault
\* rejected, the session is the one the mutation started from; the session
\* differs from it only once the mutation is done, and then the stored
\* record is the encryption of the new session's vault under its key, which
\* is the key the mutation started with.
C1_MutationAtomic ==
    (hist.op \in Mutations /\ hist.before.session # NULL) =>
        /\ hist.outcome \in { "pending", "rejected", "done" }
        /\ hist.outcome \in { "pending", "rejected" } => session = hist.before.session
        /\ hist.outcome = "rejected" => AllIdle
        /\ hist.outcome = "done" =>
              /\ session # NULL
              /\ session.key = hist.before.session.key
              /\ RecordHolds(session.key, session.vault)

\* A mutation's persistVault rejected after a receipt had been saved.
C1_Witness ==
    /\ hist.op = "handleSaveReceipt"
    /\ hist.outcome = "rejected"
    /\ session # NULL
    /\ Len(session.vault.receipts) = 1

\* C2: an unlock that succeeds with the passphrase of the session the last
\* lock discarded holds the receipts that session held, with the same id,
\* store, date and total, in the same order, and the same categories.
C2_LockUnlockDurable ==
    ( /\ hist.op = "handleUnlock"
      /\ hist.outcome = "done"
      /\ hist.atLock # NULL
      /\ session.key = hist.atLock.key )
    => /\ SeqMap(ReceiptFacts, session.vault.receipts)
            = SeqMap(ReceiptFacts, hist.atLock.vault.receipts)
       /\ session.vault.categories = hist.atLock.vault.categories

\* Two receipts were held at the lock and the unlock after it succeeded.
C2_Witness ==
    /\ hist.op = "handleUnlock"
    /\ hist.outcome = "done"
    /\ hist.atLock # NULL
    /\ session.key = hist.atLock.key
    /\ Len(hist.atLock.vault.receipts) = 2
    /\ hist.atLock.vault.receipts[1].id # hist.atLock.vault.receipts[2].id

\* An unlock of a stored record with a passphrase that is not the record's.
WrongPassphrase ==
    /\ hist.op = "handleUnlock"
    /\ hist.before.record # NULL
    /\ hist.before.record.ciphertext.sealedWith # TypedKey(hist.before.salt)

\* An unlock of a stored record with the record's passphrase.
RightPassphrase ==
    /\ hist.op = "handleUnlock"
    /\ hist.before.record # NULL
    /\ hist.before.record.ciphertext.sealedWith = TypedKey(hist.before.salt)

\* C3: an unlock with a wrong passphrase never installs a session and
\* leaves record and salt as they were; when it has ended the application
\* is locked with the error reported; an unlock with the right passphrase
\* is never refused by decryptVault and ends with the session of that key.
C3_WrongPassphrase ==
    /\ WrongPassphrase =>
          /\ session = NULL
          /\ loadVault = hist.before.record
          /\ StoredSalt = hist.before.salt
          /\ hist.outcome \in { "pending", "failed", "rejected" }
          /\ hist.outcome # "pending" => unlockError = UNLOCK_ERROR /\ ~unlocking
    /\ RightPassphrase =>
          /\ hist.outcome \in { "pending", "done", "rejected" }
          /\ hist.outcome = "done" =>
                /\ session # NULL
                /\ session.key = TypedKey(hist.before.salt)
                /\ unlockError = NULL

\* decryptVault refused a wrong passphrase.
C3_Witness ==
    /\ WrongPassphrase
    /\ hist.outcome = "failed"

\* C4: an unlock that found no record and is done has stored a record with
\* id "data" and version 1 that opens under the key derived from the
\* passphrase typed and the stored salt, to a vault with no receipts and the
\* default categories, which is the vault of the session.
C4_FirstUnlock ==
    ( /\ hist.op = "handleUnlock"
      /\ hist.before.record = NULL
      /\ hist.outcome = "done" )
    => /\ StoredSalt # NULL
       /\ loadVault # NULL
       /\ loadVault.id = "data"
       /\ loadVault.version = 1
       /\ session # NULL
       /\ session.key = TypedKey(StoredSalt)
       /\ session.vault.receipts = <<>>
       /\ session.vault.categories = defaultCategories
       /\ RecordHolds(TypedKey(StoredSalt), session.vault)
       /\ decryptVault_ok([ ciphertext |-> loadVault.ciphertext, iv |-> loadVault.iv,
                            key |-> TypedKey(StoredSalt) ])

\* The very first unlock of a device is done.
C4_Witness ==
    /\ hist.op = "handleUnlock"
    /\ hist.before.record = NULL
    /\ hist.before.salt = NULL
    /\ hist.outcome = "done"

\* C6: a confirmed reset that is done has left no record and no session and
\* the salt it found; a reset that was not confirmed has changed nothing;
\* an unlock that finds a salt but no record is never refused by
\* decryptVault, whatever the passphrase, and when done holds an empty vault
\* under the key of that passphrase and the salt found.
C6_Reset ==
    /\ (hist.op = "handleReset" /\ hist.outcome = "done") =>
          /\ loadVault = NULL
          /\ session = NULL
          /\ StoredSalt = hist.before.salt
    /\ (hist.op = "handleReset" /\ hist.outcome = "cancelled") =>
          /\ Snapshot = hist.before
          /\ AllIdle
    /\ (hist.op = "handleUnlock" /\ hist.before.record = NULL /\ hist.before.salt # NULL) =>
          /\ hist.outcome # "failed"
          /\ StoredSalt = hist.before.salt
          /\ hist.outcome = "done" =>
                /\ session # NULL
                /\ session.key = TypedKey(hist.before.salt)
                /\ session.vault.receipts = <<>>

\* A confirmed reset of a device that held a record is done.
C6_Witness ==
    /\ hist.op = "handleReset"
    /\ hist.outcome = "done"
    /\ hist.before.record # NULL
    /\ hist.before.salt # NULL

\* An unlock after a reset, with another passphrase than the record's, is done.
C6_WitnessUnlock ==
    /\ hist.op = "handleUnlock"
    /\ hist.before.record = NULL
    /\ hist.before.salt # NULL
    /\ hist.outcome = "done"

---------------------------------------------------------------------------
(* What is stored, with handlers overlapping.                              *)

\* C5 as stated: once the session has been discarded, only an unlock that
\* completes installs a session again; a mutation that was invoked before
\* the lock and finishes after it does not.
C5_LockDiscardsSession ==
    [][ (session = NULL /\ session' # NULL) =>
            \E t \in TaskIds : tasks[t].op = "handleUnlock" /\ tasks'[t] = Idle ]_vars

\* C7: every record of the vault store has exactly the fields id, version,
\* ciphertext and iv, its ciphertext being the AES-GCM output and its iv the
\* nonce of it; localStorage holds nothing but the base64 text of a salt
\* under the salt's key.
C7_NoKeyMaterialStored ==
    /\ \A r \in vaultStore :
          /\ DOMAIN r = { "id", "version", "ciphertext", "iv" }
          /\ r.id = "data"
          /\ r.version = 1
          /\ r.iv \in IvChoices
          /\ \E key \in CodecKeys :
                r.ciphertext = AesGcmEncrypt(key, r.iv, r.ciphertext.data)
    /\ DOMAIN localStorage \subseteq { SALT_KEY }
    /\ \A k \in DOMAIN localStorage :
          \E salt \in SaltChoices : localStorage[k] = bytesToBase64(salt)

\* A salt and a record holding a receipt are stored.
C7_Witness ==
    /\ SALT_KEY \in DOMAIN localStorage
    /\ \E r \in vaultStore : Len(r.ciphertext.data.json.receipts) >= 1

\* C8: the vault store never holds more than one record, the record has key
\* "data" and version 1, and a save leaves the saved record as the only one.
C8_SingletonRecord ==
    [][ /\ Cardinality(vaultStore') <= 1
        /\ \A r \in vaultStore' : r.id = "data" /\ r.version = 1
        /\ \A t \in TaskIds :
              (tasks[t].pc = "saveVault" /\ tasks'[t].pc = "setSession") =>
                  vaultStore' = { persistVault_record(tasks[t].enc) } ]_vars

\* A save has just replaced a record by another.
C8_Witness ==
    /\ \E t \in TaskIds : tasks[t].pc = "setSession" /\ tasks[t].op \in Mutations
    /\ \E r \in vaultStore : Len(r.ciphertext.data.json.receipts) >= 1
    /\ session # NULL
    /\ session.vault.receipts = <<>>

\* An unlock begins: the step in which handleUnlock calls getOrCreateSalt.
UnlockBegins == ~unlocking /\ unlocking'

\* C9: no step changes or removes a stored salt, and only the beginning of
\* an unlock stores one; every unlock begins with a salt stored that is the
\* base64 text of 16 bytes, and the salt getOrCreateSalt returns to it, from
\* which it derives its key, is those bytes whatever the generator drew.
C9_SaltStable ==
    [][ /\ StoredSalt # NULL => StoredSalt' = StoredSalt
        /\ (StoredSalt = NULL /\ StoredSalt' # NULL) => UnlockBegins
        /\ UnlockBegins =>
              /\ StoredSalt' # NULL
              /\ Len(base64ToBytes(StoredSalt')) = 16
              /\ \E t \in TaskIds :
                    /\ tasks[t] = Idle
                    /\ tasks'[t].op = "handleUnlock"
                    /\ tasks'[t].key.salt = base64ToBytes(StoredSalt') ]_vars

\* An unlock that found a salt stored has run to its end.
C9_Witness ==
    /\ hist.op = "handleUnlock"
    /\ hist.before.salt # NULL
    /\ hist.outcome = "done"
    /\ StoredSalt = hist.before.salt
    /\ session.key.salt = base64ToBytes(StoredSalt)

---------------------------------------------------------------------------
(* Nonces.                                                                 *)

\* C11: with a generator that never draws the same 12 bytes twice, every
\* encryptVault call seals under the nonce it drew itself and stores that
\* nonce as the record's iv, so no two calls under the same key, within a
\* session or across sessions, use the same nonce.
C11_NonceUnique ==
    /\ \A i \in DOMAIN nonces.sealed :
          /\ nonces.sealed[i].iv \in nonces.drawn
          /\ nonces.sealed[i].nonce = nonces.sealed[i].iv
    /\ \A i, j \in DOMAIN nonces.sealed :
          (i # j /\ nonces.sealed[i].key = nonces.sealed[j].key) =>
              nonces.sealed[i].nonce # nonces.sealed[j].nonce
    /\ Cardinality(nonces.drawn) = Len(nonces.sealed)

\* Three encryptVault calls under one key: a first-run unlock and two more
\* persists, the store holding the record of the last.
C11_Witness ==
    /\ Len(nonces.sealed) = 3
    /\ \A i \in DOMAIN nonces.sealed : nonces.sealed[i].key = nonces.sealed[1].key
    /\ \E r \in vaultStore : r.iv = nonces.sealed[3].iv

---------------------------------------------------------------------------
(* Codec round trip.                                                       *)

SameKeyRoundTrip == codecOut # NULL /\ codecOut.encKey = codecOut.decKey

HasUndefinedField(vault) ==
    \E i \in DOMAIN vault.receipts :
        UNDEFINED \in { vault.receipts[i].category, vault.receipts[i].note,
                        vault.receipts[i].imageData }

\* C10 as stated: decrypting under the encrypting key returns the very vault
\* that was encrypted, optional fields absent or set to undefined included.
C10_RoundTripExact ==
    SameKeyRoundTrip => codecOut.result = codecIn

\* C10: decrypting under the encrypting key succeeds and returns the vault
\* that was encrypted, with the same categories and the same receipts in the
\* same order, except that an optional field explicitly set to undefined
\* comes back absent; a vault with no such field comes back equal.
C10_RoundTripUpToUndefined ==
    SameKeyRoundTrip =>
        /\ codecOut.result # AuthenticationError
        /\ codecOut.result.categories = codecIn.categories
        /\ codecOut.result.receipts = SeqMap(RoundTripReceipt, codecIn.receipts)
        /\ (~HasUndefinedField(codecIn) => codecOut.result = codecIn)

\* A vault holding an absent, an undefined and a present optional field has
\* made the round trip under one key.
C10_Witness ==
    /\ SameKeyRoundTrip
    /\ \E i \in DOMAIN codecIn.receipts :
          /\ codecIn.receipts[i].category = ABSENT
          /\ codecIn.receipts[i].note = UNDEFINED
          /\ codecIn.receipts[i].imageData = ImageJpeg

---------------------------------------------------------------------------
(* CSV export and import.                                                  *)

Exported == csvIn # NULL /\ csvIn.op = "toCsv" /\ csvOut # NULL

\* The (date, store, total) of a receipt.
CsvTuple(r) == [ date |-> r.visitedAt, store |-> r.storeName, total |-> r.total ]

\* How many elements of a sequence are equal to x.
Count(seq, x) == Cardinality({ i \in DOMAIN seq : seq[i] = x })

\* C12 as stated: when no exported receipt has line items, the receipts
\* imported from the export carry the same (date, store, total) tuples as
\* the exported ones, each as many times.
C12_RoundTripNoItems ==
    ( /\ Exported
      /\ \A i \in DOMAIN csvIn.receipts : csvIn.receipts[i].lineItems = <<>> )
    => LET exported == SeqMap(CsvTuple, csvIn.receipts)
           imported == SeqMap(CsvTuple, csvOut.imported)
       IN  /\ Len(imported) = Len(exported)
           /\ \A i \in DOMAIN exported :
                 Count(imported, exported[i]) = Count(exported, exported[i])

\* C13 as stated: every exported receipt that has line items comes back as
\* exactly one imported receipt with its date, store and receipt total and
\* no line items, and nothing else comes back for it.
C13_LineItemsCollapse ==
    ( /\ Exported
      /\ \A i \in DOMAIN csvIn.receipts : csvIn.receipts[i].lineItems # <<>> )
    => /\ Len(csvOut.imported) <= Len(csvIn.receipts)
       /\ \A i \in DOMAIN csvIn.receipts :
             /\ \E k \in DOMAIN csvOut.imported :
                   CsvTuple(csvOut.imported[k]) = CsvTuple(csvIn.receipts[i])
             /\ \A k \in DOMAIN csvOut.imported :
                   csvOut.imported[k].lineItems = <<>>

Imported == csvIn # NULL /\ csvIn.op = "importCsvToReceipts" /\ csvOut # NULL

\* The data rows of a file, before the dedup.
CsvRows(text) ==
    LET lines == csvLines(text)
    IN  IF lines = <<>> THEN <<>> ELSE SeqMap(csvRow, csvDataLines(lines))

CompositeKey(row) == << row.date, row.store, row.total, row.note >>

\* The positions of the rows that are the first with their composite key.
FirstOccurrences(rows) ==
    { i \in DOMAIN rows :
        \A j \in 1..(i - 1) : CompositeKey(rows[j]) # CompositeKey(rows[i]) }

NthOf(positions, k) ==
    CHOOSE i \in positions : Cardinality({ j \in positions : j < i }) = k - 1

\* C14 as stated: importCsvToReceipts returns exactly one receipt per distinct
\* composite key (date, store, total, note) of the data rows, made from the
\* first row with that key, in order of first occurrence; rows with different
\* composite keys are never merged.
C14_DedupByCompositeKey ==
    Imported =>
        LET rows   == CsvRows(csvIn.text)
            firsts == FirstOccurrences(rows)
        IN  /\ Len(csvOut.imported) = Cardinality(firsts)
            /\ \A k \in DOMAIN csvOut.imported :
                   k <= Cardinality(firsts)
                   => csvOut.imported[k] = csvReceipt(rows[NthOf(firsts, k)], k)

\* max(1, number of line items), summed over the receipts.
RECURSIVE DataRowCount(_)
DataRowCount(receipts) ==
    IF receipts = <<>> THEN 0
    ELSE (IF Len(Head(receipts).lineItems) = 0 THEN 1 ELSE Len(Head(receipts).lineItems))
         + DataRowCount(Tail(receipts))

\* The cells of the receipt fields and of the item fields of one parsed row.
ReceiptCells(cells) == << cells[1], cells[2], cells[3], cells[9], cells[10] >>
ItemCells(cells) == << cells[4], cells[5], cells[6], cells[7], cells[8] >>

ReceiptFields(r) ==
    << r.visitedAt, r.storeName, Nullish(r.category),
       NumberToText(r.total), Nullish(r.note) >>

ItemFields(line) ==
    << line.name, line.category, NumberToText(line.quantity),
       NumberToText(line.price), NumberToText(line.price * line.quantity) >>

\* No value of the receipts holds a line feed: a row of the export is then
\* a line of its text.
NoLineFeed(receipts) ==
    \A i \in DOMAIN receipts :
        /\ "\n" \notin Range(receipts[i].storeName)
        /\ "\n" \notin Range(Nullish(receipts[i].note))

Escaped == csvIn # NULL /\ csvIn.op = "escapeCell" /\ csvOut # NULL

\* C17 as stated: for every row of values without a line feed (values with
\* commas and double quotes, a value that is a single double quote and empty
\* values included), parseCsvLine of the cells escapeCell makes, joined with
\* commas, returns exactly the original values, one per field.
C17_QuotingRoundTrip ==
    Escaped => csvOut.cols = csvIn.row

\* A line with the columns of a receipt row: date, store and total at least.
IsReceiptRow(line) == Len(parseCsvLine(line)) >= 3

\* A text that is not blank and none of whose lines is a receipt row.
WhollyMalformed(text) ==
    /\ csvLines(text) # <<>>
    /\ \A k \in DOMAIN csvLines(text) : ~IsReceiptRow(csvLines(text)[k])

\* C18 as stated: a wholly malformed file, a non-blank text none of whose
\* lines is a receipt row, makes importCsvToReceipts return the empty list.
C18_MalformedImportsNothing ==
    (Imported /\ WhollyMalformed(csvIn.text)) => csvOut.imported = <<>>

\* The data lines of a file: its non-blank lines, after the header if any.
CsvDataLines(text) ==
    IF csvLines(text) = <<>> THEN <<>> ELSE csvDataLines(csvLines(text))

\* The total column of a line: the seventh column, or the third one of a line
\* with fewer than seven columns; <<>> when the line has neither.
TotalColumn(line) ==
    LET cols == parseCsvLine(line)
    IN  IF Len(cols) >= 7 THEN cols[7]
        ELSE IF Len(cols) >= 3 THEN cols[3]
        ELSE <<>>

\* The total a line is to be imported with: its own when the total column is
\* numeric, 0 otherwise.
OwnTotal(line) ==
    IF NumberIsNaN(TotalColumn(line)) THEN 0 ELSE NumberValue(TotalColumn(line))

DistinctKeys(text) ==
    \A j, k \in DOMAIN CsvRows(text) :
        j # k => csvRowKey(CsvRows(text)[j]) # csvRowKey(CsvRows(text)[k])

---------------------------------------------------------------------------
(* Import into the vault, and the handlers without a session.              *)

ImportDone ==
    /\ hist.op = "handleImportCsv"
    /\ hist.before.session # NULL
    /\ hist.outcome = "done"

\* A receipt apart from its id.
WithoutId(r) == [r EXCEPT !.id = 0]

\* C15: a handleImportCsv that is done in an unlocked vault has put the n
\* receipts importCsvToReceipts makes of the file, with ids no receipt of the
\* vault had and no two alike, in front of the receipts the vault had, which
\* follow unchanged and in their order; nothing is merged, so the vault has
\* n receipts more, also when it held the receipts of the same file already.
C15_ImportConcatenates ==
    ImportDone =>
        LET before   == hist.before.session.vault.receipts
            parsed   == importCsvToReceipts(hist.file, 0)
            n        == Len(parsed)
            now      == session.vault.receipts
        IN  /\ Len(now) = n + Len(before)
            /\ SubSeq(now, n + 1, Len(now)) = before
            /\ \A k \in 1..n :
                 /\ WithoutId(now[k]) = WithoutId(parsed[k])
                 /\ \A j \in DOMAIN before : before[j].id # now[k].id
                 /\ \A j \in 1..n : j # k => now[j].id # now[k].id
            /\ session.vault.categories = hist.before.session.vault.categories
            /\ session.key = hist.before.session.key

\* The file of one receipt has been imported into a vault that held the
\* receipt of an earlier import of the same file: the vault has it twice.
C15_Witness ==
    /\ ImportDone
    /\ Len(importCsvToReceipts(hist.file, 0)) = 1
    /\ Len(hist.before.session.vault.receipts) = 1
    /\ Len(session.vault.receipts) = 2
    /\ WithoutId(session.vault.receipts[1]) = WithoutId(session.vault.receipts[2])
    /\ session.vault.receipts[1].id # session.vault.receipts[2].id

NoSessionOps == Mutations \cup { "handleExport" }

\* C20: handleSaveReceipt, handleDeleteReceipt, handleImportCsv and
\* handleCleanupImages invoked while no session is held return at once: the
\* session stays absent, the stored record and the salt stay what they were
\* and nothing is left running; handleExport then downloads nothing.
C20_NoSessionNoEffect ==
    (hist.op \in NoSessionOps /\ hist.before.session = NULL) =>
        /\ hist.outcome = "ignored"
        /\ session = NULL
        /\ Snapshot = hist.before
        /\ AllIdle
        /\ hist.csv = NULL

\* handleImportCsv has been invoked on a locked vault that holds a record.
C20_Witness ==
    /\ hist.op = "handleImportCsv"
    /\ hist.before.session = NULL
    /\ hist.before.record # NULL
    /\ hist.outcome = "ignored"
    /\ loadVault = hist.before.record

---------------------------------------------------------------------------
(* Images.                                                                 *)

SaveDone ==
    /\ hist.op = "handleSaveReceipt"
    /\ hist.before.session # NULL
    /\ hist.outcome = "done"

CleanupDone ==
    /\ hist.op = "handleCleanupImages"
    /\ hist.before.session # NULL
    /\ hist.outcome = "done"

StoredReceipts == loadVault.ciphertext.data.json.receipts

\* C21: the receipt a handleSaveReceipt that is done has added carries the
\* draft's image when the save-image option was on and no image when it was
\* off, in the session and in the stored record; once handleCleanupImages is
\* done no receipt of the session or of the stored record carries an image
\* and every receipt is otherwise what it was.
C21_ImageOptIn ==
    /\ SaveDone =>
         /\ session.vault.receipts[1].imageData
              = (IF hist.save.saveImage THEN hist.save.draft.imageData ELSE UNDEFINED)
         /\ StoredReceipts[1].imageData
              = (IF hist.save.saveImage
                 THEN RoundTripOptional(hist.save.draft.imageData) ELSE ABSENT)
    /\ CleanupDone =>
         /\ Len(session.vault.receipts) = Len(hist.before.session.vault.receipts)
         /\ Len(StoredReceipts) = Len(session.vault.receipts)
         /\ \A i \in DOMAIN session.vault.receipts :
              /\ session.vault.receipts[i].imageData = UNDEFINED
              /\ StoredReceipts[i].imageData = ABSENT
              /\ session.vault.receipts[i]
                   = [hist.before.session.vault.receipts[i] EXCEPT !.imageData = UNDEFINED]

\* A draft that holds an image has been saved with the save-image option
\* off, into a vault whose earlier receipt had been saved with its image.
C21_Witness ==
    /\ SaveDone
    /\ ~hist.save.saveImage
    /\ hist.save.draft.imageData = ImageJpeg
    /\ Len(session.vault.receipts) = 2
    /\ session.vault.receipts[1].imageData = UNDEFINED
    /\ session.vault.receipts[2].imageData = ImageJpeg

---------------------------------------------------------------------------
(* Overlapping handlers.                                                   *)

\* C22 as stated: whenever a session is held and no unlock, mutation or
\* reset is in flight, a record is stored and it opens under the session's
\* key to the session's vault.
C22_StorageReflectsSession ==
    (session # NULL /\ AllIdle) => RecordHolds(session.key, session.vault)

MutationsInFlight == { t \in TaskIds : tasks[t].op \in Mutations }

\* C23 as stated: at most one mutation is in flight at a time, so that no
\* mutation has computed its next vault from a session vault that another
\* unfinished mutation is about to replace.
C23_OneMutationInFlight ==
    Cardinality(MutationsInFlight) <= 1

\* The record and the session are absent and no reset is running: at the
\* page load, or after a confirmed reset has run to its end.
Cleared ==
    /\ session = NULL
    /\ loadVault = NULL
    /\ \A t \in TaskIds : tasks[t].op # "handleReset"

\* C24 as stated, for the mutations: once a confirmed reset has deleted the
\* record and dropped the session, no step of a mutation that was started
\* before the reset brings the record or the session back.
C24_ResetFinal ==
    [][ Cleared =>
          \A t \in TaskIds :
              (tasks[t].op \in Mutations /\ tasks'[t] # tasks[t])
              => (session' = NULL /\ loadVault' = NULL) ]_vars

---------------------------------------------------------------------------
(* Unlocking.                                                              *)

\* How an unlock leaves the page: with a session, or with the error shown,
\* no session, and the record it found.
UnlockEnded ==
    /\ hist.op = "handleUnlock"
    /\ ~unlocking
    /\ \/ /\ hist.outcome = "done"
          /\ session # NULL
          /\ unlockError = NULL
       \/ /\ hist.outcome \in { "failed", "rejected" }
          /\ unlockError = UNLOCK_ERROR
          /\ session = NULL
          /\ session = hist.before.session
          /\ loadVault = hist.before.record

\* C25: every unlock whose awaits settle clears the unlocking flag, and then
\* either a session is held, or the error message is set, no session is held
\* and the stored record is the one the unlock found.
C25_UnlockingTransient == unlocking ~> UnlockEnded

\* An unlock of an existing vault has failed: the flag is cleared and the
\* error is shown.
C25_Witness ==
    /\ UnlockEnded
    /\ hist.outcome = "failed"
    /\ hist.before.record # NULL

---------------------------------------------------------------------------
(* Receipts of the session.                                                *)

\* C26 as stated: the total of every receipt of the session vault is a
\* non-negative integer, whether handleSaveReceipt made it of the draft's
\* total or handleImportCsv of a file's total column.
C26_TotalsNonNegative ==
    session # NULL =>
        \A i \in DOMAIN session.vault.receipts :
            session.vault.receipts[i].total \in Nat

DeleteDone ==
    /\ hist.op = "handleDeleteReceipt"
    /\ hist.before.session # NULL
    /\ hist.outcome = "done"

DistinctIds(receipts) ==
    \A j, k \in DOMAIN receipts : j # k => receipts[j].id # receipts[k].id

---------------------------------------------------------------------------
(* The lines of an imported file.                                          *)

\* A header row: a line whose first two cells are the column names date and
\* store, as in the header toCsv writes.
IsHeaderRow(line) ==
    LET cols == parseCsvLine(toLowerCase(line))
    IN  /\ Len(cols) >= 2
        /\ cols[1] = << "d", "a", "t", "e" >>
        /\ cols[2] = << "s", "t", "o", "r", "e" >>

\* The receipt of the first line of the file with the dedup key of `line`
\* is among the imported receipts.
Contributes(line, lines, imported) ==
    \E j \in DOMAIN imported, m \in DOMAIN lines :
        /\ csvRowKey(csvRow(lines[m])) = csvRowKey(csvRow(line))
        /\ imported[j] = csvReceipt(csvRow(lines[m]), j)

\* C28 as stated: importCsvToReceipts skips the first non-blank line only
\* when it is a header row; when it is not, every non-blank line of the
\* file, the first one included whatever its store name, contributes its
\* key to the result.
C28_HeaderSkipping ==
    (Imported /\ csvLines(csvIn.text) # <<>>) =>
        LET lines == csvLines(csvIn.text)
        IN  ~IsHeaderRow(lines[1]) =>
                \A k \in DOMAIN lines : Contributes(lines[k], lines, csvOut.imported)

HasLineFeed(text) == "\n" \in Range(text)

\* C29 as stated: a receipt whose store name or note holds a line feed is
\* exported as one quoted row and imported again as exactly one receipt with
\* the same store name, date and total.
C29_LineFeedSurvives ==
    ( /\ Exported
      /\ Len(csvIn.receipts) = 1
      /\ \/ HasLineFeed(csvIn.receipts[1].storeName)
         \/ HasLineFeed(Nullish(csvIn.receipts[1].note)) )
    => /\ Len(csvOut.imported) = 1
       /\ CsvTuple(csvOut.imported[1]) = CsvTuple(csvIn.receipts[1])

\* Number(text) || 0
TotalOf(text) == IF NumberIsNaN(text) THEN 0 ELSE NumberValue(text)

\* C30 as stated: a data row with fewer columns than the export still yields
\* a receipt; a row with only a date yields the store name for imports and
\* total 0, a row with exactly the three columns date, store, total yields
\* that total, and a row with all the columns of the export yields the value
\* of its receipt_total column as total and its note column as note.  Stated
\* for files no two rows of which share a dedup key, so that the k-th
\* receipt is the k-th data row's.
C30_MissingColumns ==
    (Imported /\ DistinctKeys(csvIn.text)) =>
        LET lines    == CsvDataLines(csvIn.text)
            imported == csvOut.imported
        IN  /\ Len(imported) = Len(lines)
            /\ \A k \in DOMAIN lines :
                 LET cols == parseCsvLine(lines[k])
                 IN  /\ Len(cols) = 1 =>
                          /\ imported[k].storeName = ImportedStoreName
                          /\ imported[k].total = 0
                     /\ Len(cols) = 3 => imported[k].total = TotalOf(cols[3])
                     /\ Len(cols) = Len(toCsv_header) =>
                          /\ imported[k].total = TotalOf(cols[9])
                          /\ imported[k].note
                               = (IF cols[10] = <<>> THEN UNDEFINED ELSE cols[10])

=============================================================================
